---- MODULE Spec2Model ----
(***************************************************************************)
(* Model of the watermark application (src/app.py).                        *)
(*                                                                         *)
(*  - Spec       : threads calling WatermarkProcessor.process_file on one   *)
(*                 processor, sharing its processing_lock and the output    *)
(*                 directories, while files arrive in / leave the input     *)
(*                 directories.                                             *)
(*  - SpecScan   : the main thread running process_existing_files over      *)
(*                 unchanged input directories, MaxScans times.             *)
(*  - SpecVideo  : one call of add_watermark_to_video: the watermark text   *)
(*                 is escaped, the drawtext filter and the ffmpeg command   *)
(*                 are built, and the command is run.                       *)
(***************************************************************************)
EXTENDS Integers, Sequences, FiniteSets, TLC

(***************************************************************************)
(* Bounds of the model.                                                    *)
(***************************************************************************)
NumThreads == 2
MaxScans == 2
MaxLen == 3

Threads == 1..NumThreads

\* The thread of main(), which runs process_existing_files.
MainThread == CHOOSE t \in Threads : \A u \in Threads : t <= u

(***************************************************************************)
(* Configuration (config.json as read by load_config).  The format sets    *)
(* are lowercase extensions, one set per media kind.                       *)
(***************************************************************************)
ImageFormats == {".jpg", ".png"}
VideoFormats == {".mp4"}
AudioFormats == {".mp3"}

\* Faulty variant of Lower: the suffix is compared as it is spelled.
LowerIdentity(ext) == ext

\* str.lower() on the extensions the model uses.
Lower(ext) ==
    CASE ext = ".JPG" -> ".jpg"
      [] ext = ".PNG" -> ".png"
      [] ext = ".MP4" -> ".mp4"
      [] ext = ".MP3" -> ".mp3"
      [] OTHER -> ext

\* A path is a directory, a stem and an extension (Path.suffix, "" when none).
MkPath(d, s, e) == [dir |-> d, stem |-> s, ext |-> e]
NoPath == MkPath("", "", "")

is_image_file(p) == Lower(p.ext) \in ImageFormats
is_video_file(p) == Lower(p.ext) \in VideoFormats
is_audio_file(p) == Lower(p.ext) \in AudioFormats
is_supported_file(p) == Lower(p.ext) \in (ImageFormats \cup VideoFormats)

\* process_file, lines 333-340: output directory of the role / source name.
OutputPath(p) ==
    IF is_image_file(p) THEN MkPath("output_images", p.stem, p.ext)
    ELSE MkPath("output_videos", p.stem, p.ext)

\* The paths process_file is called with in Spec.
CallPaths ==
    { MkPath("input_images", "a", ".jpg"),
      MkPath("input_videos", "a", ".mp4"),
      MkPath("input_videos", "a", ".mp3") }

\* The directory entries process_existing_files may find in SpecScan, and
\* those of them that are directories (is_file() is false).
ScanPaths ==
    { MkPath("input_images", "a", ".jpg"),
      MkPath("input_images", "b", ".PNG"),
      MkPath("input_images", "a", ".mp4"),
      MkPath("input_images", "d", ".jpg"),
      MkPath("input_videos", "a", ".mp4") }
Directories == { MkPath("input_images", "d", ".jpg"),
                 MkPath("input_audio", "c", ".mp3") }
is_file(p) == p \notin Directories

OutputsOf(S) == { OutputPath(p) : p \in { q \in S : is_supported_file(q) } }

(***************************************************************************)
(* Exceptions a render raises.  add_watermark_to_image re-raises whatever  *)
(* PIL or the configuration lookup raised; add_watermark_to_video raises    *)
(* CalledProcessError (non-zero exit), TimeoutExpired (600 s timeout) or    *)
(* FileNotFoundError (no ffmpeg binary).                                    *)
(***************************************************************************)
ImageErrors == {"DrawError"}
VideoErrors == {"CalledProcessError", "TimeoutExpired", "FileNotFoundError"}
RenderErrors(p) == IF is_image_file(p) THEN ImageErrors ELSE VideoErrors

\* Log lines of process_file.
SkipMessages == {"not_exist", "unsupported", "skip_exists"}

VARIABLES
    config_state,     \* what load_config finds: "ok", "missing", "invalid"
    proc,             \* the process: "starting", "running", "exited"
    inputs,           \* the source paths that exist
    outputs,          \* output path -> "absent", "partial", "complete"
    deletable,        \* whether unlink of an output file succeeds
    processing_lock,  \* WatermarkProcessor.processing_lock is held
    pc,               \* thread -> position in process_file
    input_path,       \* thread -> argument of its current (last) call
    log,              \* thread -> log lines of its current (last) call
    exc,              \* thread -> exception in flight, "none" when none
    scan_run,         \* process_existing_files: calls started so far
    scan_phase,       \* "off", "images", "videos"
    scan_todo         \* entries of the current iterdir() not yet visited

scanVars == <<scan_run, scan_phase, scan_todo>>

VARIABLES
    raw_text,         \* config['watermark']['text'], a sequence of characters
    background_color, \* config['watermark']['background_color']: "absent", "rgb"
    video_pc,         \* add_watermark_to_video: "start", "built", "returned", "raised"
    audio_file,       \* result of find_matching_audio: "none" or "audio"
    video_duration,   \* result of get_video_duration: "none", "zero", "positive"
    escaped_text,     \* result of escape_text_for_ffmpeg
    filter_parts,     \* the key=value segments of the drawtext filter
    cmd,              \* the ffmpeg argument list
    attempts,         \* the commands run so far, with their outcomes
    video_exc         \* the exception add_watermark_to_video raised, or "none"

videoVars == <<raw_text, background_color, video_pc, audio_file,
               video_duration, escaped_text, filter_parts, cmd, attempts,
               video_exc>>

VARIABLES
    image,            \* the add_watermark_to_image call:
                      \*   size        <<img.width, img.height>>
                      \*   lines       per text line, the size textbbox measures
                      \*   padding     config['watermark']['padding']
                      \*   margin      config['watermark']['margin']
                      \*   pc          "start", "configured", "drawn", "saved",
                      \*               "raised"
                      \*   rectangles  the draw.rectangle calls made, in order
                      \*   text_draws  the draw.text calls made, in order
                      \*   exc         the exception raised, or "none"
    classify,         \* the is_*_file predicates applied to one path:
                      \*   path, pc ("start", "done"), result (the roles)
    audio_search,     \* the find_matching_audio call:
                      \*   dir         input_audio_dir.iterdir(), in order
                      \*   video_path  the argument
                      \*   pc          "start", "returned"
                      \*   match       the path returned, NoPath for None
    watcher,          \* the observer thread and its FileWatcher handler:
                      \*   events      events not yet delivered, in order
                      \*   pc          "idle", "settling", "processing"
                      \*   event       the event being handled
                      \*   timer       seconds slept since the handler began
                      \*   calls       process_file calls made for the event
                      \*   handled     the events handled, each with its calls
    startup           \* main():
                      \*   ffmpeg_available  an ffmpeg binary can be started
                      \*   pc          "start", "checked", "watching"
                      \*   warnings    the warnings logged

\* The variables of the parts of the program modelled further down.
extras == <<image, classify, audio_search, watcher, startup>>

\* The variables process_file and its environment leave alone.
others == <<scanVars, videoVars, extras>>

vars == <<config_state, proc, inputs, outputs, deletable, processing_lock,
          pc, input_path, log, exc, others>>

(***************************************************************************)
(* Start-up: WatermarkProcessor.__init__ / load_config.                    *)
(***************************************************************************)
InitScan ==
    /\ scan_run = 0
    /\ scan_phase = "off"
    /\ scan_todo = {}

InitVideo ==
    /\ raw_text = <<>>
    /\ background_color = "rgb"
    /\ video_pc = "start"
    /\ audio_file = "none"
    /\ video_duration = "none"
    /\ escaped_text = <<>>
    /\ filter_parts = <<>>
    /\ cmd = <<>>
    /\ attempts = <<>>
    /\ video_exc = "none"

\* A part of the program that a specification leaves out is not running
\* there and has no state.
NotRunning == "not running"

NoImageCall == image = NotRunning
NoClassifyCall == classify = NotRunning
NoAudioSearch == audio_search = NotRunning
NoWatcher == watcher = NotRunning
NoStartup == startup = NotRunning

NoRoles == [image |-> FALSE, video |-> FALSE, audio |-> FALSE,
            supported |-> FALSE]

NoEvent == [kind |-> "none", is_directory |-> FALSE, src_path |-> NoPath,
            dest_path |-> NoPath]

\* Lines 382-384 and 439-446: the observer is started, nothing has happened.
InitWatch ==
    watcher = [events |-> <<>>, pc |-> "idle", event |-> NoEvent, timer |-> 0,
               calls |-> <<>>, handled |-> <<>>]

\* The parts of the program modelled further down, left out.
InitExtras ==
    /\ NoImageCall
    /\ NoClassifyCall
    /\ NoAudioSearch
    /\ NoWatcher
    /\ NoStartup

InitThreads ==
    /\ pc = [t \in Threads |-> "idle"]
    /\ input_path = [t \in Threads |-> NoPath]
    /\ log = [t \in Threads |-> {}]
    /\ exc = [t \in Threads |-> "none"]
    /\ processing_lock = FALSE

Init ==
    /\ config_state \in {"ok", "missing", "invalid"}
    /\ proc = "starting"
    /\ inputs = {}
    /\ outputs = [o \in OutputsOf(CallPaths) |-> "absent"]
    /\ deletable \in BOOLEAN
    /\ InitThreads
    /\ InitScan
    /\ InitVideo
    /\ InitExtras

\* load_config: a missing or malformed file ends the process (sys.exit(1)).
load_config ==
    /\ proc = "starting"
    /\ proc' = IF config_state = "ok" THEN "running" ELSE "exited"
    /\ UNCHANGED <<config_state, inputs, outputs, deletable, processing_lock,
                   pc, input_path, log, exc, others>>

(***************************************************************************)
(* Environment: files appear in and vanish from the input directories, and *)
(* the output directories accept or refuse deletion.                       *)
(***************************************************************************)
FileArrives(p) ==
    /\ p \notin inputs
    /\ inputs' = inputs \cup {p}
    /\ UNCHANGED <<config_state, proc, outputs, deletable, processing_lock,
                   pc, input_path, log, exc, others>>

FileRemoved(p) ==
    /\ p \in inputs
    /\ inputs' = inputs \ {p}
    /\ UNCHANGED <<config_state, proc, outputs, deletable, processing_lock,
                   pc, input_path, log, exc, others>>

DeletionToggles ==
    /\ deletable' = ~deletable
    /\ UNCHANGED <<config_state, proc, inputs, outputs, processing_lock,
                   pc, input_path, log, exc, others>>

(***************************************************************************)
(* process_file, step by step.                                             *)
(***************************************************************************)
\* A caller (FileWatcher.on_created / on_moved, a test) enters process_file.
Dispatch(t, p) ==
    /\ proc = "running"
    /\ pc[t] = "idle"
    /\ pc' = [pc EXCEPT ![t] = "check_source"]
    /\ input_path' = [input_path EXCEPT ![t] = p]
    /\ log' = [log EXCEPT ![t] = {}]
    /\ UNCHANGED <<config_state, proc, inputs, outputs, deletable,
                   processing_lock, exc, others>>

\* Lines 325-340: the source must exist and be an image or a video.
CheckSource(t) ==
    /\ pc[t] = "check_source"
    /\ IF input_path[t] \notin inputs
       THEN /\ log' = [log EXCEPT ![t] = @ \cup {"not_exist"}]
            /\ pc' = [pc EXCEPT ![t] = "idle"]
       ELSE IF ~is_supported_file(input_path[t])
       THEN /\ log' = [log EXCEPT ![t] = @ \cup {"unsupported"}]
            /\ pc' = [pc EXCEPT ![t] = "idle"]
       ELSE /\ log' = log
            /\ pc' = [pc EXCEPT ![t] = "check_output"]
    /\ UNCHANGED <<config_state, proc, inputs, outputs, deletable,
                   processing_lock, input_path, exc, others>>

\* Faulty variant of OutputExists: the check never finds the output.
OutputExistsNever(o) == FALSE

\* Faulty variant of OutputExists: only a finished output counts.
OutputExistsComplete(o) == outputs[o] = "complete"

\* output_path.exists()
OutputExists(o) == outputs[o] # "absent"

\* Lines 342-345: an existing output means the file was done before.
CheckOutput(t) ==
    /\ pc[t] = "check_output"
    /\ IF OutputExists(OutputPath(input_path[t]))
       THEN /\ log' = [log EXCEPT ![t] = @ \cup {"skip_exists"}]
            /\ pc' = [pc EXCEPT ![t] = "idle"]
       ELSE /\ log' = log
            /\ pc' = [pc EXCEPT ![t] = "acquire"]
    /\ UNCHANGED <<config_state, proc, inputs, outputs, deletable,
                   processing_lock, input_path, exc, others>>

\* Faulty variant of CanAcquire: the acquire does not wait.
CanAcquireAlways(t) == TRUE

\* Lock.acquire() returns only when the lock is free.
CanAcquire(t) == ~processing_lock

\* Lines 347-354: take the lock, log, enter the render.
Acquire(t) ==
    /\ pc[t] = "acquire"
    /\ CanAcquire(t)
    /\ processing_lock' = TRUE
    /\ log' = [log EXCEPT ![t] = @ \cup {"processing"}]
    /\ pc' = [pc EXCEPT ![t] = "render"]
    /\ UNCHANGED <<config_state, proc, inputs, outputs, deletable,
                   input_path, exc, others>>

\* The render opens the output path for writing (Image.save, ffmpeg -y):
\* whatever was there is truncated and a partial file is in its place.
RenderWrite(t) ==
    /\ pc[t] = "render"
    /\ outputs[OutputPath(input_path[t])] # "partial"
    /\ outputs' = [outputs EXCEPT ![OutputPath(input_path[t])] = "partial"]
    /\ UNCHANGED <<config_state, proc, inputs, deletable, processing_lock,
                   pc, input_path, log, exc, others>>

\* Lines 351-356: the render returned; the with block releases the lock.
RenderSucceeds(t) ==
    /\ pc[t] = "render"
    /\ outputs' = [outputs EXCEPT ![OutputPath(input_path[t])] = "complete"]
    /\ log' = [log EXCEPT ![t] = @ \cup {"processed"}]
    /\ processing_lock' = FALSE
    /\ pc' = [pc EXCEPT ![t] = "idle"]
    /\ UNCHANGED <<config_state, proc, inputs, deletable, input_path, exc, others>>

\* Lines 179-181 and 317-319: the render raises.
RenderFails(t, e) ==
    /\ pc[t] = "render"
    /\ e \in RenderErrors(input_path[t])
    /\ exc' = [exc EXCEPT ![t] = e]
    /\ pc' = [pc EXCEPT ![t] = "except"]
    /\ UNCHANGED <<config_state, proc, inputs, outputs, deletable,
                   processing_lock, input_path, log, others>>

\* Faulty variant of Caught: except subprocess.CalledProcessError only.
CaughtOnlyProcessError(e) == e = "CalledProcessError"

\* except Exception: every render error is an Exception.
Caught(e) == e \in (ImageErrors \cup VideoErrors)

\* Faulty variant of CleanedUp: the handler deletes nothing.
CleanedUpNothing(o) == outputs[o]

\* Lines 360-365: unlink the output if it exists; an unlink error is passed.
CleanedUp(o) ==
    IF OutputExists(o) /\ deletable THEN "absent" ELSE outputs[o]

\* Lines 358-365, then the with block releases the lock.  An exception the
\* handler does not catch leaves process_file and ends the calling thread.
Cleanup(t) ==
    /\ pc[t] = "except"
    /\ IF Caught(exc[t])
       THEN /\ log' = [log EXCEPT ![t] = @ \cup {"failed"}]
            /\ outputs' = [outputs EXCEPT ![OutputPath(input_path[t])] =
                              CleanedUp(OutputPath(input_path[t]))]
            /\ pc' = [pc EXCEPT ![t] = "idle"]
       ELSE /\ log' = log
            /\ outputs' = outputs
            /\ pc' = [pc EXCEPT ![t] = "crashed"]
    /\ exc' = [exc EXCEPT ![t] = "none"]
    /\ processing_lock' = FALSE
    /\ UNCHANGED <<config_state, proc, inputs, deletable, input_path, others>>

process_file(t) ==
    \/ CheckSource(t)
    \/ CheckOutput(t)
    \/ Acquire(t)
    \/ RenderWrite(t)
    \/ RenderSucceeds(t)
    \/ \E e \in ImageErrors \cup VideoErrors : RenderFails(t, e)
    \/ Cleanup(t)

Next ==
    \/ load_config
    \/ \E p \in CallPaths : FileArrives(p)
    \/ \E p \in CallPaths : FileRemoved(p)
    \/ DeletionToggles
    \/ \E t \in Threads : \E p \in CallPaths : Dispatch(t, p)
    \/ \E t \in Threads : process_file(t)

Spec == Init /\ [][Next]_vars

(***************************************************************************)
(* process_existing_files, run by the main thread.                         *)
(***************************************************************************)
\* Path.iterdir(): the entries of a directory.
iterdir(d) == { p \in inputs : p.dir = d }

\* Line 370: the call begins with the listing of the images directory.
ScanStart ==
    /\ proc = "running"
    /\ scan_phase = "off"
    /\ scan_run < MaxScans
    /\ scan_run' = scan_run + 1
    /\ scan_phase' = "images"
    /\ scan_todo' = iterdir("input_images")
    /\ UNCHANGED <<config_state, proc, inputs, outputs, deletable,
                   processing_lock, pc, input_path, log, exc, videoVars, extras>>

\* Lines 371 and 376: only files of the directory's own kind are processed.
Eligible(p) ==
    /\ is_file(p)
    /\ \/ p.dir = "input_images" /\ is_image_file(p)
       \/ p.dir = "input_videos" /\ is_video_file(p)

\* Lines 370-372 and 375-377: one iteration of a for loop.
ScanNext(p) ==
    /\ scan_phase \in {"images", "videos"}
    /\ pc[MainThread] = "idle"
    /\ p \in scan_todo
    /\ scan_todo' = scan_todo \ {p}
    /\ IF Eligible(p)
       THEN /\ pc' = [pc EXCEPT ![MainThread] = "check_source"]
            /\ input_path' = [input_path EXCEPT ![MainThread] = p]
            /\ log' = [log EXCEPT ![MainThread] = {}]
       ELSE UNCHANGED <<pc, input_path, log>>
    /\ UNCHANGED <<config_state, proc, inputs, outputs, deletable,
                   processing_lock, exc, scan_run, scan_phase, videoVars,
                   extras>>

\* A for loop ends: the videos directory is listed, or the call returns.
ScanAdvance ==
    /\ scan_phase \in {"images", "videos"}
    /\ pc[MainThread] = "idle"
    /\ scan_todo = {}
    /\ IF scan_phase = "images"
       THEN /\ scan_phase' = "videos"
            /\ scan_todo' = iterdir("input_videos")
       ELSE /\ scan_phase' = "off"
            /\ scan_todo' = {}
    /\ UNCHANGED <<config_state, proc, inputs, outputs, deletable,
                   processing_lock, pc, input_path, log, exc, scan_run,
                   videoVars, extras>>

process_existing_files ==
    \/ ScanStart
    \/ \E p \in ScanPaths : ScanNext(p)
    \/ ScanAdvance

InitScanSpec ==
    /\ config_state = "ok"
    /\ proc = "starting"
    /\ inputs \in SUBSET ScanPaths
    /\ outputs \in [OutputsOf(ScanPaths) -> {"absent", "complete"}]
    /\ deletable \in BOOLEAN
    /\ InitThreads
    /\ InitScan
    /\ InitVideo
    /\ InitExtras

NextScan ==
    \/ load_config
    \/ DeletionToggles
    \/ process_existing_files
    \/ process_file(MainThread)

SpecScan == InitScanSpec /\ [][NextScan]_vars

(***************************************************************************)
(* add_watermark_to_video.                                                 *)
(***************************************************************************)
\* The characters a watermark text is made of: a letter, a line break, a
\* backslash and the characters escape_text_for_ffmpeg treats.
Alphabet == {"a", "\n", "\\", ":", "'", "\"", "=", "[", "]"}
Texts == UNION { [1..n -> Alphabet] : n \in 0..MaxLen }

\* str.replace(old, new) for a one-character old.
RECURSIVE Replace(_, _, _)
Replace(s, old, new) ==
    IF s = <<>> THEN <<>>
    ELSE (IF Head(s) = old THEN new ELSE <<Head(s)>>)
             \o Replace(Tail(s), old, new)

\* Faulty variant of escape_text_for_ffmpeg: the '=' replacement is missing.
escape_without_equals(text) ==
    Replace(Replace(Replace(Replace(Replace(Replace(text,
        "\n", <<"\\", "n">>),
        ":", <<"\\", ":">>),
        "'", <<"\\", "'">>),
        "\"", <<"\\", "\"">>),
        "[", <<"\\", "[">>),
        "]", <<"\\", "]">>)

\* Lines 183-198.
escape_text_for_ffmpeg(text) ==
    LET t1 == Replace(text, "\n", <<"\\", "n">>)
        t2 == Replace(t1, ":", <<"\\", ":">>)
        t3 == Replace(t2, "'", <<"\\", "'">>)
        t4 == Replace(t3, "\"", <<"\\", "\"">>)
        t5 == Replace(t4, "=", <<"\\", "=">>)
        t6 == Replace(t5, "[", <<"\\", "[">>)
        t7 == Replace(t6, "]", <<"\\", "]">>)
    IN  t7

Part(k, v) == [key |-> k, val |-> v]

\* Lines 256-265: the segments, whatever background_color is.
FilterParts(escaped) ==
    << Part("text", escaped),
       Part("fontsize", <<"font_size">>),
       Part("fontcolor", <<"white@0.8">>),
       Part("x", <<"(w-text_w)/2">>),
       Part("y", <<"30+(h-text_h-60)*t/duration">>),
       Part("box", <<"1">>),
       Part("boxcolor", <<"black@0.5">>),
       Part("boxborderw", <<"10">>) >>

\* Faulty variant of ReplacesAudio: the probed duration is not looked at.
ReplacesAudioWhenFound(audio, duration) == audio # "none"

\* Line 271: if audio_file and video_duration (None and 0.0 are falsy).
ReplacesAudio(audio, duration) == audio # "none" /\ duration = "positive"

\* Lines 268-297.
Command(audio, duration) ==
    <<"ffmpeg", "-i", "<input_path>">>
    \o (IF ReplacesAudio(audio, duration)
        THEN <<"-i", "<audio_file>",
               "-filter_complex", "<audio_filter;video_filter>",
               "-map", "[watermarked_video]", "-map", "[looped_audio]",
               "-c:v", "libx264", "-c:a", "aac", "-shortest">>
        ELSE <<"-vf", "<video_filter>", "-c:a", "copy">>)
    \o <<"-y", "<output_path>">>

\* Lines 240-299: look for the audio, probe the duration, escape the text,
\* build the filter and the command.
Compile ==
    /\ video_pc = "start"
    /\ \E a \in {"none", "audio"} : \E d \in {"none", "zero", "positive"} :
          /\ audio_file' = a
          /\ video_duration' = d
          /\ cmd' = Command(a, d)
    /\ escaped_text' = escape_text_for_ffmpeg(raw_text)
    /\ filter_parts' = FilterParts(escape_text_for_ffmpeg(raw_text))
    /\ video_pc' = "built"
    /\ UNCHANGED <<raw_text, background_color, attempts, video_exc>>
    /\ UNCHANGED <<config_state, proc, inputs, outputs, deletable,
                   processing_lock, pc, input_path, log, exc, scanVars, extras>>

\* What subprocess.run does with the command.
Outcomes == {"exit_zero", "exit_nonzero", "timeout", "no_binary"}

OutcomeError(o) ==
    CASE o = "exit_zero" -> "none"
      [] o = "exit_nonzero" -> "CalledProcessError"
      [] o = "timeout" -> "TimeoutExpired"
      [] o = "no_binary" -> "FileNotFoundError"

\* Faulty variant of Execute: the exit status is not looked at, the call
\* returns normally whatever the command did.
ExecuteIgnoringStatus(o) ==
    /\ video_pc = "built"
    /\ attempts' = Append(attempts, [strategy |-> "standard", outcome |-> o])
    /\ video_exc' = "none"
    /\ video_pc' = "returned"
    /\ UNCHANGED <<raw_text, background_color, audio_file, video_duration,
                   escaped_text, filter_parts, cmd>>
    /\ UNCHANGED <<config_state, proc, inputs, outputs, deletable,
                   processing_lock, pc, input_path, log, exc, scanVars, extras>>

\* Lines 302-319: the one command is run once; anything but exit status zero
\* is raised to the caller.
Execute(o) ==
    /\ video_pc = "built"
    /\ attempts' = Append(attempts, [strategy |-> "standard", outcome |-> o])
    /\ video_exc' = OutcomeError(o)
    /\ video_pc' = IF o = "exit_zero" THEN "returned" ELSE "raised"
    /\ UNCHANGED <<raw_text, background_color, audio_file, video_duration,
                   escaped_text, filter_parts, cmd>>
    /\ UNCHANGED <<config_state, proc, inputs, outputs, deletable,
                   processing_lock, pc, input_path, log, exc, scanVars, extras>>

add_watermark_to_video ==
    \/ Compile
    \/ \E o \in Outcomes : Execute(o)

InitVideoSpec ==
    /\ config_state = "ok"
    /\ proc = "running"
    /\ inputs = {}
    /\ outputs = [o \in OutputsOf(CallPaths) |-> "absent"]
    /\ deletable = TRUE
    /\ InitThreads
    /\ InitScan
    /\ raw_text \in Texts
    /\ background_color \in {"absent", "rgb"}
    /\ video_pc = "start"
    /\ audio_file = "none"
    /\ video_duration = "none"
    /\ escaped_text = <<>>
    /\ filter_parts = <<>>
    /\ cmd = <<>>
    /\ attempts = <<>>
    /\ video_exc = "none"
    /\ InitExtras

SpecVideo == InitVideoSpec /\ [][add_watermark_to_video]_vars

(***************************************************************************)
(* add_watermark_to_image.                                                 *)
(***************************************************************************)
\* Bounds: the lines of a watermark text, and the width and the height
\* that draw.textbbox measures for one line.
MaxLines == 2
MaxDim == 2

\* Line 142: the gap added to the text height for every line but one.
LineGap == 5
\* Line 166: the gap added to current_y after every line.
LineAdvance == 5

\* Line 138: the (width, height) of one line; an empty line measures 0 by 0.
LineSizes == [w : 0..MaxDim, h : 0..MaxDim]

\* Line 132: text.split('\n') has at least one element.
TextLines == UNION {[1..n -> LineSizes] : n \in 1..MaxLines}

\* Sizes of the opened image: smaller than any label, even, odd.
ImageSizes == {<<1, 1>>, <<8, 6>>, <<9, 7>>}

\* Values of config['watermark']['padding'] and ['margin'].
Paddings == {0, 3}
Margins == {0, 2}

\* max() and sum() over a list of numbers.
Max(S) == CHOOSE m \in S : \A v \in S : v <= m

RECURSIVE Sum(_)
Sum(s) == IF s = <<>> THEN 0 ELSE Head(s) + Sum(Tail(s))

\* Lines 136-139.
line_widths(ls) == [i \in 1..Len(ls) |-> ls[i].w]
line_heights(ls) == [i \in 1..Len(ls) |-> ls[i].h]

\* Line 141.
text_width(ls) == Max({line_widths(ls)[i] : i \in 1..Len(ls)})

\* Faulty variant of text_height: the gaps between the lines are left out.
text_height_no_gap(ls) == Sum(line_heights(ls))

\* Line 142.
text_height(ls) == Sum(line_heights(ls)) + (Len(ls) - 1) * LineGap

\* Lines 145-146.
watermark_width(ls, p) == text_width(ls) + 2 * p
watermark_height(ls, p) == text_height(ls) + 2 * p

\* Lines 148-149: the label is centred; // rounds towards minus infinity.
PositionX(size, ls, p) == (size[1] - watermark_width(ls, p)) \div 2
PositionY(size, ls, p) == (size[2] - watermark_height(ls, p)) \div 2

\* Lines 158-166: the origin of every draw.text call.
RECURSIVE LineOrigins(_, _, _)
LineOrigins(heights, x0, current_y) ==
    IF heights = <<>>
    THEN <<>>
    ELSE <<[x |-> x0, y |-> current_y]>>
         \o LineOrigins(Tail(heights), x0,
                        current_y + Head(heights) + LineAdvance)

\* Lines 110-126: the image is opened and the watermark settings are read;
\* config['watermark']['background_color'] is read without a default, so a
\* configuration without the key raises KeyError before anything is drawn.
OpenAndConfigure(opened) ==
    /\ image.pc = "start"
    /\ image' =
          IF ~opened
          THEN [image EXCEPT !.pc = "raised", !.exc = "UnidentifiedImageError"]
          ELSE IF background_color = "absent"
               THEN [image EXCEPT !.pc = "raised", !.exc = "KeyError"]
               ELSE [image EXCEPT !.pc = "configured"]
    /\ UNCHANGED <<config_state, proc, inputs, outputs, deletable,
                   processing_lock, pc, input_path, log, exc, scanVars,
                   videoVars, classify, audio_search, watcher, startup>>

\* Lines 131-166: measure, place, draw the rectangle, draw the lines.
Draw ==
    /\ image.pc = "configured"
    /\ LET x == PositionX(image.size, image.lines, image.padding)
           y == PositionY(image.size, image.lines, image.padding)
       IN image' =
             [image EXCEPT
                 !.pc = "drawn",
                 !.rectangles =
                     Append(@, [x0 |-> x, y0 |-> y,
                                x1 |-> x + watermark_width(image.lines,
                                                           image.padding),
                                y1 |-> y + watermark_height(image.lines,
                                                            image.padding)]),
                 !.text_draws =
                     LineOrigins(line_heights(image.lines),
                                 x + image.padding, y + image.padding)]
    /\ UNCHANGED <<config_state, proc, inputs, outputs, deletable,
                   processing_lock, pc, input_path, log, exc, scanVars,
                   videoVars, classify, audio_search, watcher, startup>>

\* Lines 169-181: the image is saved; an error is logged and raised again.
Save(written) ==
    /\ image.pc = "drawn"
    /\ image' = IF written
                THEN [image EXCEPT !.pc = "saved"]
                ELSE [image EXCEPT !.pc = "raised", !.exc = "OSError"]
    /\ UNCHANGED <<config_state, proc, inputs, outputs, deletable,
                   processing_lock, pc, input_path, log, exc, scanVars,
                   videoVars, classify, audio_search, watcher, startup>>

add_watermark_to_image ==
    \/ \E opened \in BOOLEAN : OpenAndConfigure(opened)
    \/ Draw
    \/ \E written \in BOOLEAN : Save(written)

InitImageSpec ==
    /\ config_state = "ok"
    /\ proc = "running"
    /\ inputs = {}
    /\ outputs = [o \in OutputsOf(CallPaths) |-> "absent"]
    /\ deletable = TRUE
    /\ InitThreads
    /\ InitScan
    /\ raw_text = <<>>
    /\ background_color \in {"absent", "rgb"}
    /\ video_pc = "start"
    /\ audio_file = "none"
    /\ video_duration = "none"
    /\ escaped_text = <<>>
    /\ filter_parts = <<>>
    /\ cmd = <<>>
    /\ attempts = <<>>
    /\ video_exc = "none"
    /\ image \in [size : ImageSizes, lines : TextLines, padding : Paddings,
                   margin : Margins, pc : {"start"}, rectangles : {<<>>},
                   text_draws : {<<>>}, exc : {"none"}]
    /\ NoClassifyCall
    /\ NoAudioSearch
    /\ NoWatcher
    /\ NoStartup

SpecImage == InitImageSpec /\ [][add_watermark_to_image]_vars

(***************************************************************************)
(* is_supported_file, is_image_file, is_video_file, is_audio_file.         *)
(***************************************************************************)
\* Suffixes a path may have: none, the configured ones in lower and in
\* upper case, and one that is not configured.
Suffixes == {"", ".jpg", ".JPG", ".png", ".PNG", ".mp4", ".MP4", ".mp3",
             ".MP3", ".txt"}

ClassifyPaths ==
    { MkPath(d, s, x) : d \in {"input_images", "input_videos", "input_audio"},
                        s \in {"a", "b", "c"}, x \in Suffixes }

\* Lines 67-89: the four predicates applied to one path.
Classification(p) ==
    [image |-> is_image_file(p), video |-> is_video_file(p),
     audio |-> is_audio_file(p), supported |-> is_supported_file(p)]

Classify ==
    /\ classify.pc = "start"
    /\ classify' = [classify EXCEPT !.pc = "done",
                                     !.result = Classification(classify.path)]
    /\ UNCHANGED <<config_state, proc, inputs, outputs, deletable,
                   processing_lock, pc, input_path, log, exc, scanVars,
                   videoVars, image, audio_search, watcher, startup>>

InitClassSpec ==
    /\ config_state = "ok"
    /\ proc = "running"
    /\ inputs = {}
    /\ outputs = [o \in OutputsOf(CallPaths) |-> "absent"]
    /\ deletable = TRUE
    /\ InitThreads
    /\ InitScan
    /\ InitVideo
    /\ NoImageCall
    /\ classify \in [path : ClassifyPaths, pc : {"start"}, result : {NoRoles}]
    /\ NoAudioSearch
    /\ NoWatcher
    /\ NoStartup

SpecClass == InitClassSpec /\ [][Classify]_vars

(***************************************************************************)
(* FileWatcher: the event handler run by the observer thread.              *)
(***************************************************************************)
\* Bound: the events the observer delivers in one behaviour.
MaxEvents == 2

\* Lines 390 and 397: the seconds slept before process_file is called.
CreatedDelay == 1
MovedDelay == 1

\* The observer delivers the events of both watched directories from one
\* thread, one handler call at a time.
WatcherThread == CHOOSE t \in Threads : \A u \in Threads : u <= t

\* Paths the events are about: an image, a video.
EventPaths == { MkPath("input_images", "a", ".jpg"),
                MkPath("input_videos", "a", ".mp4") }

\* The events watchdog dispatches: a file or a directory was created, was
\* renamed from a temporary name, or was modified.
Events ==
    { [kind |-> "created", is_directory |-> d, src_path |-> p,
       dest_path |-> NoPath] : d \in BOOLEAN, p \in EventPaths }
    \cup
    { [kind |-> "moved", is_directory |-> d,
       src_path |-> MkPath(p.dir, p.stem, ".part"), dest_path |-> p] :
          d \in BOOLEAN, p \in EventPaths }
    \cup
    { [kind |-> "modified", is_directory |-> FALSE, src_path |-> p,
       dest_path |-> NoPath] : p \in EventPaths }

\* Faulty variant of EventPath: every event is handled by its source path.
EventPathSrc(e) == e.src_path

\* Lines 391 and 398: the path handed to process_file.
EventPath(e) == IF e.kind = "moved" THEN e.dest_path ELSE e.src_path

Delay(e) == IF e.kind = "moved" THEN MovedDelay ELSE CreatedDelay

\* The file system produces an event.
Emit(e) ==
    /\ Len(watcher.events) + Len(watcher.handled)
          + (IF watcher.pc = "idle" THEN 0 ELSE 1) < MaxEvents
    /\ watcher' = [watcher EXCEPT !.events = Append(@, e)]
    /\ UNCHANGED <<config_state, proc, inputs, outputs, deletable,
                   processing_lock, pc, input_path, log, exc, scanVars,
                   videoVars, image, classify, audio_search, startup>>

\* Lines 386-388 and 393-395: the observer calls on_created or on_moved
\* (FileSystemEventHandler ignores the other kinds); a directory event
\* returns at once.
Deliver ==
    /\ watcher.pc = "idle"
    /\ watcher.events # <<>>
    /\ LET e == Head(watcher.events)
       IN watcher' =
             IF e.kind \in {"created", "moved"} /\ ~e.is_directory
             THEN [watcher EXCEPT !.events = Tail(@), !.pc = "settling",
                                  !.event = e, !.timer = 0, !.calls = <<>>]
             ELSE [watcher EXCEPT
                      !.events = Tail(@),
                      !.handled = Append(@, [event |-> e, calls |-> <<>>])]
    /\ UNCHANGED <<config_state, proc, inputs, outputs, deletable,
                   processing_lock, pc, input_path, log, exc, scanVars,
                   videoVars, image, classify, audio_search, startup>>

\* Lines 390 and 397: time.sleep(1) is under way.
Sleep ==
    /\ watcher.pc = "settling"
    /\ watcher.timer < Delay(watcher.event)
    /\ watcher' = [watcher EXCEPT !.timer = @ + 1]
    /\ UNCHANGED <<config_state, proc, inputs, outputs, deletable,
                   processing_lock, pc, input_path, log, exc, scanVars,
                   videoVars, image, classify, audio_search, startup>>

\* Lines 391 and 398: the sleep is over, process_file is entered.
CallProcessFile ==
    /\ watcher.pc = "settling"
    /\ watcher.timer >= Delay(watcher.event)
    /\ pc[WatcherThread] = "idle"
    /\ watcher' = [watcher EXCEPT
                      !.pc = "processing",
                      !.calls = Append(@, EventPath(watcher.event))]
    /\ pc' = [pc EXCEPT ![WatcherThread] = "check_source"]
    /\ input_path' = [input_path EXCEPT
                         ![WatcherThread] = EventPath(watcher.event)]
    /\ log' = [log EXCEPT ![WatcherThread] = {}]
    /\ UNCHANGED <<config_state, proc, inputs, outputs, deletable,
                   processing_lock, exc, scanVars, videoVars, image, classify,
                   audio_search, startup>>

\* process_file has returned, and so does the handler.
HandlerReturns ==
    /\ watcher.pc = "processing"
    /\ pc[WatcherThread] = "idle"
    /\ watcher' = [watcher EXCEPT
                      !.handled = Append(@, [event |-> watcher.event,
                                             calls |-> watcher.calls]),
                      !.pc = "idle", !.event = NoEvent, !.calls = <<>>,
                      !.timer = 0]
    /\ UNCHANGED <<config_state, proc, inputs, outputs, deletable,
                   processing_lock, pc, input_path, log, exc, scanVars,
                   videoVars, image, classify, audio_search, startup>>

FileWatcher ==
    \/ Deliver
    \/ Sleep
    \/ CallProcessFile
    \/ HandlerReturns

InitWatchSpec ==
    /\ config_state = "ok"
    /\ proc = "running"
    /\ inputs \in SUBSET EventPaths
    /\ outputs = [o \in OutputsOf(CallPaths) |-> "absent"]
    /\ deletable = TRUE
    /\ InitThreads
    /\ InitScan
    /\ InitVideo
    /\ NoImageCall
    /\ NoClassifyCall
    /\ NoAudioSearch
    /\ InitWatch
    /\ NoStartup

NextWatch ==
    \/ \E e \in Events : Emit(e)
    \/ FileWatcher
    \/ process_file(WatcherThread)

SpecWatch == InitWatchSpec /\ [][NextWatch]_vars

(***************************************************************************)
(* find_matching_audio.                                                    *)
(***************************************************************************)
\* Bound: the entries of the audio input directory.
MaxEntries == 3

\* What the audio input directory may hold: two audio files, a file that is
\* not audio, and a directory named like an audio file.
AudioEntries == { MkPath("input_audio", "a", ".mp3"),
                  MkPath("input_audio", "b", ".MP3"),
                  MkPath("input_audio", "a", ".txt"),
                  MkPath("input_audio", "c", ".mp3") }

\* The listings iterdir() may yield: distinct entries in any order.
Listings ==
    { l \in UNION {[1..n -> AudioEntries] : n \in 0..MaxEntries} :
          \A i, j \in 1..Len(l) : i # j => l[i] # l[j] }

VideoPaths == { MkPath("input_videos", s, ".mp4") : s \in {"a", "b", "c"} }

\* Lines 205-208: the first audio file of the listing with the given stem.
RECURSIVE FirstWithStem(_, _)
FirstWithStem(listing, stem) ==
    IF listing = <<>> THEN NoPath
    ELSE IF /\ is_file(Head(listing))
            /\ is_audio_file(Head(listing))
            /\ Head(listing).stem = stem
         THEN Head(listing)
         ELSE FirstWithStem(Tail(listing), stem)

\* Lines 211-213: the first audio file of the listing.
RECURSIVE FirstAudio(_)
FirstAudio(listing) ==
    IF listing = <<>> THEN NoPath
    ELSE IF is_file(Head(listing)) /\ is_audio_file(Head(listing))
         THEN Head(listing)
         ELSE FirstAudio(Tail(listing))

\* Faulty variant of MatchingAudio: the stem of the video is not looked at.
AnyAudio(listing, video) == FirstAudio(listing)

\* Lines 200-215.
MatchingAudio(listing, video) ==
    IF FirstWithStem(listing, video.stem) # NoPath
    THEN FirstWithStem(listing, video.stem)
    ELSE FirstAudio(listing)

find_matching_audio ==
    /\ audio_search.pc = "start"
    /\ audio_search' = [audio_search EXCEPT !.pc = "returned",
                               !.match = MatchingAudio(audio_search.dir,
                                                       audio_search.video_path)]
    /\ UNCHANGED <<config_state, proc, inputs, outputs, deletable,
                   processing_lock, pc, input_path, log, exc, scanVars,
                   videoVars, image, classify, watcher, startup>>

InitAudioSpec ==
    /\ config_state = "ok"
    /\ proc = "running"
    /\ inputs = {}
    /\ outputs = [o \in OutputsOf(CallPaths) |-> "absent"]
    /\ deletable = TRUE
    /\ InitThreads
    /\ InitScan
    /\ InitVideo
    /\ NoImageCall
    /\ NoClassifyCall
    /\ audio_search \in [dir : Listings, video_path : VideoPaths,
                          pc : {"start"}, match : {NoPath}]
    /\ NoWatcher
    /\ NoStartup

SpecAudio == InitAudioSpec /\ [][find_matching_audio]_vars

(***************************************************************************)
(* main(): check_ffmpeg, the processor, the files already there, then the  *)
(* observer.  A video render is the add_watermark_to_video call.           *)
(***************************************************************************)
\* Lines 400-406 and 416-418: without ffmpeg two warning lines are logged
\* and main goes on.
check_ffmpeg ==
    /\ startup.pc = "start"
    /\ startup' =
          IF startup.ffmpeg_available
          THEN [startup EXCEPT !.pc = "checked"]
          ELSE [startup EXCEPT
                   !.pc = "checked",
                   !.warnings = @ \o <<"FFmpeg not found",
                                       "Please install FFmpeg">>]
    /\ UNCHANGED <<config_state, proc, inputs, outputs, deletable,
                   processing_lock, pc, input_path, log, exc, scanVars,
                   videoVars, image, classify, audio_search, watcher>>

\* Line 422: WatermarkProcessor() reads the configuration.
Construct == startup.pc = "checked" /\ load_config

\* Thread t is inside the add_watermark_to_video call of line 354.
RenderingVideo(t) == pc[t] = "render" /\ is_video_file(input_path[t])

\* No add_watermark_to_video call has ended without its caller going on.
NoCallEnding ==
    video_pc \in {"returned", "raised"} => \E t \in Threads : RenderingVideo(t)

\* Line 426: process_existing_files is called once.
ExistingFiles ==
    /\ startup.pc = "checked"
    /\ NoCallEnding
    /\ scan_run = 0 \/ scan_phase # "off"
    /\ process_existing_files

\* Lines 429-447: the observer is scheduled on both directories and started.
StartObserver ==
    /\ startup.pc = "checked"
    /\ proc = "running"
    /\ scan_run > 0
    /\ scan_phase = "off"
    /\ startup' = [startup EXCEPT !.pc = "watching"]
    /\ UNCHANGED <<config_state, proc, inputs, outputs, deletable,
                   processing_lock, pc, input_path, log, exc, scanVars,
                   videoVars, image, classify, audio_search, watcher>>

\* Lines 351-356: what process_file sees of a video render is what the call
\* does: ffmpeg writes the output while it runs, the render is over when
\* the call has returned, and fails with the exception the call raised.
VideoAgrees(t) ==
    RenderingVideo(t) =>
        \/ pc'[t] = "render" /\ video_pc = "built" /\ startup.ffmpeg_available
        \/ pc'[t] = "idle" /\ video_pc = "returned"
        \/ pc'[t] = "except" /\ video_pc = "raised" /\ exc'[t] = video_exc

Job(t) == NoCallEnding /\ process_file(t) /\ VideoAgrees(t)

\* Lines 236-319 as called from line 354; subprocess.run raises
\* FileNotFoundError exactly when there is no ffmpeg to start.
VideoCall ==
    /\ \E t \in Threads : RenderingVideo(t)
    /\ \/ Compile
       \/ \E o \in Outcomes :
             /\ (o = "no_binary") <=> ~startup.ffmpeg_available
             /\ Execute(o)

\* The call is over and process_file has gone on: its locals are gone.
VideoCallEnds ==
    /\ video_pc \in {"returned", "raised"}
    /\ \A t \in Threads : ~RenderingVideo(t)
    /\ video_pc' = "start"
    /\ audio_file' = "none"
    /\ video_duration' = "none"
    /\ escaped_text' = <<>>
    /\ filter_parts' = <<>>
    /\ cmd' = <<>>
    /\ attempts' = <<>>
    /\ video_exc' = "none"
    /\ UNCHANGED <<raw_text, background_color>>
    /\ UNCHANGED <<config_state, proc, inputs, outputs, deletable,
                   processing_lock, pc, input_path, log, exc, scanVars, extras>>

\* Lines 449-453: main sleeps while the observer thread handles the events.
Watching ==
    /\ startup.pc = "watching"
    /\ NoCallEnding
    /\ \/ \E e \in Events : Emit(e)
       \/ FileWatcher

InitMainSpec ==
    /\ config_state = "ok"
    /\ proc = "starting"
    /\ inputs \in SUBSET EventPaths
    /\ outputs = [o \in OutputsOf(ScanPaths) |-> "absent"]
    /\ deletable \in BOOLEAN
    /\ InitThreads
    /\ InitScan
    /\ InitVideo
    /\ NoImageCall
    /\ NoClassifyCall
    /\ NoAudioSearch
    /\ InitWatch
    /\ startup \in [ffmpeg_available : BOOLEAN, pc : {"start"},
                     warnings : {<<>>}]

NextMain ==
    \/ check_ffmpeg
    \/ Construct
    \/ ExistingFiles
    \/ StartObserver
    \/ Watching
    \/ Job(MainThread)
    \/ Job(WatcherThread)
    \/ VideoCall
    \/ VideoCallEnds

SpecMain == InitMainSpec /\ [][NextMain]_vars

(***************************************************************************)
(* main() with files arriving while it runs: the scan of the files already *)
(* there, then the observer, and the lines the calls leave in              *)
(* watermark_app.log.                                                      *)
(***************************************************************************)
\* Lines 19-27: every logger call appends to watermark_app.log; the lines
\* of a process_file call are in the file once the call has returned.
Logged(t) ==
    \/ input_path[t] = NoPath
    \/ [path |-> input_path[t], lines |-> log[t]] \in startup.log_file

\* Line 372, 377, 391 or 398: the process_file call of thread t has
\* returned to its caller.
CallReturns(t) ==
    /\ pc[t] = "idle"
    /\ ~Logged(t)
    /\ startup' = [startup EXCEPT
                      !.log_file = @ \cup {[path |-> input_path[t],
                                            lines |-> log[t]]}]
    /\ UNCHANGED <<config_state, proc, inputs, outputs, deletable,
                   processing_lock, pc, input_path, log, exc, scanVars,
                   videoVars, image, classify, audio_search, watcher>>

\* A file is written or renamed into a watched directory.  Lines 429-447:
\* the directories are watched from observer.start() on; before that the
\* file system reports nothing to the program.
Arrive(e) ==
    /\ e.kind \in {"created", "moved"}
    /\ ~e.is_directory
    /\ EventPath(e) \notin inputs
    /\ inputs' = inputs \cup {EventPath(e)}
    /\ watcher' = IF startup.pc = "watching"
                  THEN [watcher EXCEPT !.events = Append(@, e)]
                  ELSE watcher
    /\ UNCHANGED <<config_state, proc, outputs, deletable, processing_lock,
                   pc, input_path, log, exc, scanVars, videoVars, image,
                   classify, audio_search, startup>>

\* Line 426, one call after the other.
ScanOnce == Logged(MainThread) /\ ExistingFiles

\* Lines 386-398 on the observer thread, one call after the other.
ObserverRuns ==
    /\ startup.pc = "watching"
    /\ Logged(WatcherThread)
    /\ FileWatcher

\* The steps of the main thread (lines 408-447) and of the observer thread.
MainSteps ==
    \/ check_ffmpeg
    \/ Construct
    \/ ScanOnce
    \/ StartObserver
    \/ process_file(MainThread)
    \/ CallReturns(MainThread)

ObserverSteps ==
    \/ ObserverRuns
    \/ process_file(WatcherThread)
    \/ CallReturns(WatcherThread)

InitLiveSpec ==
    /\ config_state = "ok"
    /\ proc = "starting"
    /\ inputs \in SUBSET EventPaths
    /\ outputs = [o \in OutputsOf(ScanPaths) |-> "absent"]
    /\ deletable \in BOOLEAN
    /\ InitThreads
    /\ InitScan
    /\ InitVideo
    /\ NoImageCall
    /\ NoClassifyCall
    /\ NoAudioSearch
    /\ InitWatch
    /\ startup \in [ffmpeg_available : BOOLEAN, pc : {"start"},
                     warnings : {<<>>}, log_file : {{}}]

NextLive ==
    \/ MainSteps
    \/ ObserverSteps
    \/ \E e \in Events : Arrive(e)

\* Every render terminates and both threads are scheduled fairly.
SpecLive ==
    /\ InitLiveSpec
    /\ [][NextLive]_vars
    /\ WF_vars(MainSteps)
    /\ WF_vars(ObserverSteps)

(***************************************************************************)
(* Properties of process_file under Spec.                                  *)
(***************************************************************************)
\* The step in which thread t leaves the except handler and returns.
ReturnsFromFailure(t) == pc[t] = "except" /\ pc'[t] = "idle"

\* C1 (as stated): whenever a render failed, the target output path does not
\* exist when process_file returns, also when deleting the partial file fails.
C1_NoPartialOutput ==
    [][\A t \in Threads :
          ReturnsFromFailure(t) =>
              outputs'[OutputPath(input_path[t])] = "absent"]_vars

\* C1 (amended): whenever a render failed, the target output path does not
\* exist when process_file returns, unless the deletion of the file fails:
\* then the error is swallowed and the file is left as the render left it.
C1_NoPartialOutputUnlessUnlinkFails ==
    [][\A t \in Threads :
          ReturnsFromFailure(t) =>
              /\ deletable => outputs'[OutputPath(input_path[t])] = "absent"
              /\ ~deletable => outputs'[OutputPath(input_path[t])] =
                                   outputs[OutputPath(input_path[t])]
              /\ "failed" \in log'[t]]_vars

C1_Witness ==
    \E t \in Threads :
        /\ pc[t] = "idle"
        /\ "failed" \in log[t]
        /\ deletable
        /\ outputs[OutputPath(input_path[t])] = "absent"

\* The step in which thread t returns from process_file as skipped: it logs
\* the reason, holds no lock, started no render and changed no output.
SkippedStep(t) ==
    /\ pc'[t] = "idle"
    /\ log'[t] \cap SkipMessages # {}
    /\ "processing" \notin log'[t]
    /\ processing_lock' = processing_lock
    /\ outputs' = outputs

\* C2: a call is skipped whenever the source does not exist when it is
\* checked, its extension is no configured image or video extension, or the
\* output path exists when it is checked; a skipped call never takes the lock,
\* never starts a render and changes no output.
C2_Skipped ==
    [][\A t \in Threads :
          /\ ( /\ pc[t] = "check_source"
               /\ pc'[t] # "check_source"
               /\ \/ input_path[t] \notin inputs
                  \/ Lower(input_path[t].ext) \notin ImageFormats \cup VideoFormats )
             => SkippedStep(t)
          /\ ( /\ pc[t] = "check_output"
               /\ pc'[t] # "check_output"
               /\ outputs[OutputPath(input_path[t])] \in {"partial", "complete"} )
             => SkippedStep(t)
          /\ log[t] \cap SkipMessages # {} =>
                 pc[t] = "idle" /\ log[t] \cap {"processing", "processed", "failed"} = {}
      ]_vars

C2_Witness ==
    \E t, u \in Threads :
        /\ pc[t] = "idle" /\ "skip_exists" \in log[t]
        /\ pc[u] = "idle" /\ "unsupported" \in log[u]
        /\ is_audio_file(input_path[u])

\* C3: at most one thread is inside add_watermark_to_image or
\* add_watermark_to_video (and at most one inside the locked region at all).
C3_MutualExclusion ==
    /\ Cardinality({t \in Threads : pc[t] = "render"}) <= 1
    /\ Cardinality({t \in Threads : pc[t] \in {"render", "except"}}) <= 1
    /\ (\E t \in Threads : pc[t] \in {"render", "except"}) => processing_lock

C3_Witness ==
    \E t, u \in Threads :
        /\ t # u
        /\ pc[t] = "render"
        /\ pc[u] = "acquire"

\* C4: two calls for the same path never both start a render, and once both
\* have returned after finding the source, exactly one output file stands
\* committed and at most one of them logged a skip.
C4_NeverTwoRenders ==
    \A t, u \in Threads :
        (t # u /\ input_path[t] = input_path[u] /\ is_supported_file(input_path[t])) =>
            /\ ~("processing" \in log[t] /\ "processing" \in log[u])
            /\ ( /\ pc[t] = "idle" /\ log[t] # {} /\ "not_exist" \notin log[t]
                 /\ pc[u] = "idle" /\ log[u] # {} /\ "not_exist" \notin log[u] )
               => /\ outputs[OutputPath(input_path[t])] = "complete"
                  /\ ~("skip_exists" \in log[t] /\ "skip_exists" \in log[u])

\* C6: no render error leaves process_file: the calling thread never ends
\* with an exception, a failed call returns to the caller, and the process
\* exits only on a configuration error.
C6_NoCrash ==
    /\ \A t \in Threads : pc[t] # "crashed"
    /\ \A t \in Threads : exc[t] # "none" => pc[t] = "except"
    /\ \A t \in Threads : "failed" \in log[t] => pc[t] = "idle"
    /\ proc = "exited" => config_state \in {"missing", "invalid"}

C6_Witness ==
    /\ proc = "running"
    /\ \E t, u \in Threads :
          /\ pc[t] = "idle" /\ "failed" \in log[t] /\ is_video_file(input_path[t])
          /\ pc[u] = "idle" /\ "failed" \in log[u] /\ is_image_file(input_path[u])

AllOutputsPresent ==
    /\ pc[MainThread] \notin {"render", "except"}
    /\ \A p \in inputs :
          Eligible(p) => outputs[OutputPath(p)] \in {"partial", "complete"}

C7_StrategyFallback ==
    /\ video_pc = "raised" =>
          /\ Len(attempts) = 3
          /\ attempts[1].strategy = "standard"
          /\ attempts[2].strategy = "simple_fallback"
          /\ attempts[3].strategy = "last_resort"
          /\ \A i \in 1..3 : attempts[i].outcome # "exit_zero"
    /\ video_pc = "returned" =>
          /\ Len(attempts) \in 1..3
          /\ attempts[Len(attempts)].outcome = "exit_zero"
          /\ \A i \in 1..(Len(attempts) - 1) : attempts[i].outcome # "exit_zero"

\* What the standard escape puts for one character of the text.
EscapedChar(ch) ==
    IF ch = "\n" THEN <<"\\", "n">>
    ELSE IF ch \in {":", "'", "\"", "=", "[", "]"} THEN <<"\\", ch>>
    ELSE <<ch>>

RECURSIVE EscapedCharByChar(_)
EscapedCharByChar(text) ==
    IF text = <<>> THEN <<>>
    ELSE EscapedChar(Head(text)) \o EscapedCharByChar(Tail(text))

\* s has sub as a contiguous substring.
HasSubstring(s, sub) ==
    \E i \in 0..(Len(s) - Len(sub)) :
        \A j \in 1..Len(sub) : s[i + j] = sub[j]

\* C8: the escaped text is the text with every line break replaced by
\* backslash-n and every one of : ' " = [ ] prefixed by a backslash, all other
\* characters unchanged; "contact: 123" gives "contact\: 123".
C8_StandardEscaping ==
    /\ video_pc # "start" =>
          /\ escaped_text = EscapedCharByChar(raw_text)
          /\ filter_parts[1] = Part("text", EscapedCharByChar(raw_text))
    /\ HasSubstring(
          escape_text_for_ffmpeg(
              <<"a", "\n", "c", "o", "n", "t", "a", "c", "t", ":", " ", "1", "2", "3", "=">>),
          <<"c", "o", "n", "t", "a", "c", "t", "\\", ":", " ", "1", "2", "3">>)

C8_Witness ==
    /\ video_pc = "built"
    /\ Len(raw_text) = MaxLen
    /\ \E i, j, k \in 1..Len(raw_text) :
          raw_text[i] = "\n" /\ raw_text[j] = ":" /\ raw_text[k] = "="
    /\ Len(escaped_text) = 2 * Len(raw_text)

\* The number of consecutive backslashes right before position i of s.
RECURSIVE BackslashesBefore(_, _)
BackslashesBefore(s, i) ==
    IF i > 1 /\ s[i - 1] = "\\" THEN 1 + BackslashesBefore(s, i - 1) ELSE 0

\* C9: the text value of the compiled drawtext expression has no bare ':' or
\* '=': each is preceded by an odd number of consecutive backslashes.
C9_NoBareSeparator ==
    video_pc # "start" =>
        \A i \in 1..Len(filter_parts[1].val) :
            filter_parts[1].val[i] \in {":", "="} =>
                BackslashesBefore(filter_parts[1].val, i) % 2 = 1

HasKey(parts, k) == \E i \in 1..Len(parts) : parts[i].key = k

\* C10: the compiled expression has box, boxcolor and boxborderw exactly
\* when a background colour is configured, and always has the text, font
\* size, font colour and position parameters.
C10_BoxIffBackground ==
    video_pc # "start" =>
        /\ \A k \in {"text", "fontsize", "fontcolor", "x", "y"} :
              HasKey(filter_parts, k)
        /\ \A k \in {"box", "boxcolor", "boxborderw"} :
              HasKey(filter_parts, k) <=> (background_color # "absent")

(***************************************************************************)
(* Properties of add_watermark_to_image under SpecImage.                   *)
(***************************************************************************)
\* C11: a render without a configured background colour completes (only a
\* failure to read or write the image file may end it), draws no rectangle
\* and puts the first text line exactly at the anchor, with no padding; a
\* rectangle is drawn only when a background colour is configured.
C11_NoBackgroundNoRectangle ==
    /\ (background_color = "absent" /\ image.pc = "raised") =>
           image.exc \in {"UnidentifiedImageError", "OSError"}
    /\ (background_color = "absent" /\ image.pc \in {"drawn", "saved"}) =>
           /\ image.rectangles = <<>>
           /\ image.text_draws[1] =
                  [x |-> PositionX(image.size, image.lines, 0),
                   y |-> PositionY(image.size, image.lines, 0)]
    /\ image.rectangles # <<>> => background_color # "absent"

\* C12: the far edges of the background rectangle are at (W - m, H - m) for
\* an image of W by H and a margin m.  add_watermark_to_image has a single
\* placement whatever the configuration holds, so this is stated of every
\* rectangle it draws.
C12_MarginHonoured ==
    image.rectangles # <<>> =>
        /\ image.rectangles[1].x1 = image.size[1] - image.margin
        /\ image.rectangles[1].y1 = image.size[2] - image.margin

\* C13: the label is as wide as its widest line and as high as the sum of
\* the line heights plus 5 per line after the first; the rectangle measures
\* (width + 2p) by (height + 2p); the first line is drawn at the rectangle's
\* origin plus (p, p), and every following line at the previous line's y
\* plus the previous line's height plus 5.
C13_Layout ==
    image.rectangles # <<>> =>
        LET n == Len(image.lines)
            label_width ==
                CHOOSE w \in {image.lines[i].w : i \in 1..n} :
                    \A i \in 1..n : image.lines[i].w <= w
            label_height ==
                Sum([i \in 1..n |-> image.lines[i].h]) + 5 * (n - 1)
            r == image.rectangles[1]
        IN /\ Len(image.rectangles) = 1
           /\ r.x1 - r.x0 = label_width + 2 * image.padding
           /\ r.y1 - r.y0 = label_height + 2 * image.padding
           /\ Len(image.text_draws) = n
           /\ image.text_draws[1] =
                 [x |-> r.x0 + image.padding, y |-> r.y0 + image.padding]
           /\ \A i \in 2..n :
                 image.text_draws[i].y =
                     image.text_draws[i - 1].y + image.lines[i - 1].h + 5

\* A saved image whose two lines differ in height and in width, drawn with a
\* padding.
C13_Witness ==
    /\ image.pc = "saved"
    /\ Len(image.lines) = 2
    /\ image.lines[1].h # image.lines[2].h
    /\ image.lines[1].w > image.lines[2].w
    /\ image.padding > 0
    /\ Len(image.text_draws) = 2

(***************************************************************************)
(* Properties of the classification predicates under SpecClass.            *)
(***************************************************************************)
\* The spellings of a lower-case suffix that differ in case only.
Spellings(x) ==
    CASE x = ".jpg" -> {".jpg", ".JPG"}
      [] x = ".png" -> {".png", ".PNG"}
      [] x = ".mp4" -> {".mp4", ".MP4"}
      [] x = ".mp3" -> {".mp3", ".MP3"}
      [] OTHER -> {x}

HasSuffixOf(p, formats) == \E x \in formats : p.ext \in Spellings(x)

\* C14: every path is exactly one of image, video, audio, unsupported; the
\* role depends on the suffix alone, whatever its case; a path without a
\* suffix or with an unknown one is unsupported.
C14_Classification ==
    classify.pc = "done" =>
        /\ classify.result.image <=> HasSuffixOf(classify.path, ImageFormats)
        /\ classify.result.video <=> HasSuffixOf(classify.path, VideoFormats)
        /\ classify.result.audio <=> HasSuffixOf(classify.path, AudioFormats)
        /\ classify.result.supported <=>
              HasSuffixOf(classify.path, ImageFormats \cup VideoFormats)
        /\ Cardinality({r \in {"image", "video", "audio"} : classify.result[r]})
              <= 1
        /\ classify.path.ext \in {"", ".txt"} =>
              \A r \in {"image", "video", "audio", "supported"} :
                  ~classify.result[r]

\* An upper-case video suffix in the images directory was classified.
C14_Witness ==
    /\ classify.pc = "done"
    /\ classify.path.ext = ".MP4"
    /\ classify.path.dir = "input_images"
    /\ classify.result.video

(***************************************************************************)
(* Further properties of add_watermark_to_video under SpecVideo.           *)
(***************************************************************************)
\* C15: with an empty configured text the call reports an error: it raises
\* without having compiled a command or run one.
C15_EmptyTextIsError ==
    (raw_text = <<>> /\ video_pc # "start") =>
        /\ video_pc = "raised"
        /\ cmd = <<>>
        /\ attempts = <<>>

(***************************************************************************)
(* Properties of FileWatcher under SpecWatch.                              *)
(***************************************************************************)
\* The process_file calls the claim allows for an event.
CallsDue(e) ==
    IF e.is_directory THEN <<>>
    ELSE IF e.kind = "created" THEN <<e.src_path>>
    ELSE IF e.kind = "moved" THEN <<e.dest_path>>
    ELSE <<>>

\* C16: a handled created event of a file has led to exactly one
\* process_file call, on its source path, a handled moved event of a file to
\* exactly one, on its destination path, and a handled directory event to
\* none; a call is made only when the settle delay of one second has passed
\* since the handler was entered.
C16_WatcherAdaptation ==
    /\ \A i \in 1..Len(watcher.handled) :
          watcher.handled[i].event.kind \in {"created", "moved"} =>
              watcher.handled[i].calls = CallsDue(watcher.handled[i].event)
    /\ watcher.pc = "processing" =>
           /\ watcher.calls = CallsDue(watcher.event)
           /\ watcher.timer >= 1
    /\ watcher.pc = "settling" => watcher.calls = <<>>

\* A moved file event and a created directory event have both been handled.
C16_Witness ==
    /\ Len(watcher.handled) = 2
    /\ \E i, j \in 1..2 :
          /\ watcher.handled[i].event.kind = "moved"
          /\ ~watcher.handled[i].event.is_directory
          /\ watcher.handled[i].calls = <<watcher.handled[i].event.dest_path>>
          /\ watcher.handled[j].event.kind = "created"
          /\ watcher.handled[j].event.is_directory
          /\ watcher.handled[j].calls = <<>>

(***************************************************************************)
(* Properties of find_matching_audio under SpecAudio.                      *)
(***************************************************************************)
\* Entry i of the audio directory is a file with a configured audio suffix.
IsAudioFileAt(i) ==
    /\ audio_search.dir[i] \notin Directories
    /\ \E x \in AudioFormats : audio_search.dir[i].ext \in Spellings(x)

\* C17: find_matching_audio returns an audio file of the directory with the
\* stem of the video when there is one, otherwise the first audio file in
\* directory order, otherwise nothing; never a directory or a file that is
\* not audio.
C17_AudioMatch ==
    audio_search.pc = "returned" =>
        LET dir == audio_search.dir
            found == audio_search.match
            audios == {i \in 1..Len(dir) : IsAudioFileAt(i)}
            same == {i \in audios : dir[i].stem = audio_search.video_path.stem}
        IN /\ same # {} => \E i \in same : found = dir[i]
           /\ (same = {} /\ audios # {}) =>
                 \E i \in audios :
                    /\ found = dir[i]
                    /\ \A j \in audios : i <= j
           /\ audios = {} => found = NoPath
           /\ found # NoPath => \E i \in audios : found = dir[i]

\* The audio file with the stem of the video was returned although it is the
\* last of three entries and another audio file is the first.
C17_Witness ==
    /\ audio_search.pc = "returned"
    /\ Len(audio_search.dir) = 3
    /\ audio_search.dir[1].ext = ".MP3"
    /\ audio_search.dir[3].stem = audio_search.video_path.stem
    /\ audio_search.match = audio_search.dir[3]

(***************************************************************************)
(* Properties of main() under SpecMain.                                    *)
(***************************************************************************)
\* C18: when ffmpeg is missing at startup, no video job starts a render and
\* ffmpeg is never invoked, and the warning that video processing is not
\* available is logged once.
C18_DegradedMode ==
    ~startup.ffmpeg_available =>
        /\ \A t \in Threads :
              is_video_file(input_path[t]) => pc[t] \notin {"render", "except"}
        /\ attempts = <<>>
        /\ startup.pc # "start" =>
              Cardinality({i \in 1..Len(startup.warnings) :
                              startup.warnings[i] = "FFmpeg not found"}) = 1

\* The path the claim gives for the output of a source path: the output
\* directory of its role, and its own name.
ExpectedOutput(p) ==
    MkPath(IF HasSuffixOf(p, ImageFormats) THEN "output_images"
           ELSE "output_videos",
           p.stem, p.ext)

InCriticalSection(t) == pc[t] \in {"render", "except"}

\* C19: a process_file call that holds the lock has released it when it
\* returns, after a successful render as after a failed one, and the lock is
\* free whenever no call is between acquire and return; when a call returns
\* from a successful render the output exists at the output directory of the
\* role under the source file's name; a video render succeeds only when
\* add_watermark_to_video returned normally, which it does exactly when
\* ffmpeg exited with status zero, and it raises otherwise.
C19_CommitAndRelease ==
    [][/\ \A t \in Threads :
             /\ (InCriticalSection(t) /\ ~InCriticalSection(t)') =>
                    ~processing_lock'
             /\ (pc[t] = "render" /\ pc'[t] = "idle") =>
                    /\ "processed" \in log'[t]
                    /\ outputs'[ExpectedOutput(input_path[t])] = "complete"
             /\ (RenderingVideo(t) /\ pc'[t] = "idle") => video_pc = "returned"
       /\ (\A t \in Threads : ~InCriticalSection(t)') => ~processing_lock'
       /\ video_pc' \in {"returned", "raised"} =>
             /\ attempts' # <<>>
             /\ (video_pc' = "returned") <=>
                   (attempts'[Len(attempts')].outcome = "exit_zero")
      ]_vars

\* The main thread's last job failed in its render, the observer thread's
\* video job has just been committed, and nobody holds the lock.
C19_Witness ==
    /\ "failed" \in log[MainThread]
    /\ pc[MainThread] = "idle"
    /\ pc[WatcherThread] = "idle"
    /\ "processed" \in log[WatcherThread]
    /\ is_video_file(input_path[WatcherThread])
    /\ outputs[OutputPath(input_path[WatcherThread])] = "complete"
    /\ video_pc = "returned"
    /\ ~processing_lock

(***************************************************************************)
(* The command of add_watermark_to_video under SpecVideo.                  *)
(***************************************************************************)
\* The number of input options of a command.
InputCount(c) == Cardinality({i \in 1..Len(c) : c[i] = "-i"})

\* The command takes the audio file as its second input, looped and trimmed
\* by the audio filter and mapped together with the watermarked video.
TakesAudioInput(c) ==
    /\ InputCount(c) = 2
    /\ HasSubstring(c, <<"-i", "<input_path>", "-i", "<audio_file>">>)
    /\ HasSubstring(c, <<"-filter_complex", "<audio_filter;video_filter>">>)
    /\ HasSubstring(c, <<"-map", "[watermarked_video]">>)
    /\ HasSubstring(c, <<"-map", "[looped_audio]">>)
    /\ ~HasSubstring(c, <<"-c:a", "copy">>)

\* The command has the video as its only input and copies its audio.
CopiesAudio(c) ==
    /\ InputCount(c) = 1
    /\ HasSubstring(c, <<"-i", "<input_path>">>)
    /\ HasSubstring(c, <<"-vf", "<video_filter>">>)
    /\ HasSubstring(c, <<"-c:a", "copy">>)
    /\ ~HasSubstring(c, <<"-map">>)

EndsWithOverwrite(c) ==
    /\ Len(c) >= 2
    /\ c[Len(c) - 1] = "-y"
    /\ c[Len(c)] = "<output_path>"

C21_CommittedStable ==
    [][\A o \in DOMAIN outputs :
          outputs[o] = "complete" => outputs'[o] = "complete"]_vars


(***************************************************************************)
(* Arriving files under SpecLive.                                          *)
(***************************************************************************)
\* A process_file call for p has returned after committing the output,
\* skipping the file, or failing and cleaning up.
Settled(p) ==
    \E l \in startup.log_file :
       /\ l.path = p
       /\ l.lines \cap {"processed", "skip_exists", "failed"} # {}

\* C22: every supported file that is in a watched input directory, whenever
\* it arrived, is eventually handed to process_file, and that call ends
\* with the output committed, the file skipped, or the failure cleaned up.
C22_NoFileMissed ==
    \A p \in EventPaths : (p \in inputs) ~> Settled(p)

====
